---- MODULE Spec2Model ----
(***************************************************************************)
(* Command layer of confluence-markdown-exporter (main.py): the four       *)
(* export commands, the output-path override and the space-key normalizer. *)
(*                                                                         *)
(* A Python str is a sequence of characters; a character is a one-element  *)
(* string, and a character outside ASCII is written by its code point      *)
(* ("U+212A").  The collaborators (Page, Space, Organization, the settings *)
(* store) are recorded by the calls the commands make to them.             *)
(***************************************************************************)
EXTENDS Integers, Sequences, FiniteSets, TLC

VARIABLES
    settings,               \* the settings store: dotted key -> value
    settings0,              \* the store as it was when the command was invoked
    cmd,                    \* the command being run
    args,                   \* its positional arguments (pages / space_keys)
    output_path,            \* its --output-path option, "None" when absent
    pc,                     \* position in the command's body
    idx,                    \* position of the for loop in its list (1-based)
    normalized_space_keys,  \* spaces: the list built at line 78
    calls,                  \* calls made to the collaborators, in order,
                            \* each with whether it returned (ok) or raised
    raised_by               \* the call whose exception ended the command

vars == <<settings, settings0, cmd, args, output_path, pc, idx,
          normalized_space_keys, calls, raised_by>>

----------------------------------------------------------------------------
(* Bounds of the model *)

\* longest argument list of a command
MaxArgs == 2
\* most pieces a generated space key is concatenated from
MaxPieces == 2

----------------------------------------------------------------------------
(* Characters *)

AsciiUpper == <<"A","B","C","D","E","F","G","H","I","J","K","L","M",
                "N","O","P","Q","R","S","T","U","V","W","X","Y","Z">>
AsciiLower == <<"a","b","c","d","e","f","g","h","i","j","k","l","m",
                "n","o","p","q","r","s","t","u","v","w","x","y","z">>
AsciiDigits == <<"0","1","2","3","4","5","6","7","8","9">>
\* ARABIC-INDIC DIGIT ZERO..NINE, category Nd like the ASCII digits
ArabicIndicDigits == <<"U+0660","U+0661","U+0662","U+0663","U+0664",
                       "U+0665","U+0666","U+0667","U+0668","U+0669">>
\* SUPERSCRIPT TWO, SUPERSCRIPT THREE, CIRCLED DIGIT ONE: category No,
\* Numeric_Type=Digit
OtherDigitChars == {"U+00B2", "U+00B3", "U+2460"}

Range(s) == {s[i] : i \in 1..Len(s)}
IndexOf(s, c) == CHOOSE i \in 1..Len(s) : s[i] = c

IsAsciiLetter(c) == c \in Range(AsciiUpper) \cup Range(AsciiLower)
IsAsciiDigit(c) == c \in Range(AsciiDigits)

\* the characters int() reads as a decimal digit
IsDecimalChar(c) == c \in Range(AsciiDigits) \cup Range(ArabicIndicDigits)
DecimalValue(c) ==
    IF c \in Range(AsciiDigits) THEN IndexOf(AsciiDigits, c) - 1
    ELSE IndexOf(ArabicIndicDigits, c) - 1

\* the characters str.isdigit() accepts
IsDigitChar(c) == IsDecimalChar(c) \/ c \in OtherDigitChars

\* str.isdigit(): at least one character and all of them digits
isdigit(s) == Len(s) > 0 /\ \A i \in 1..Len(s) : IsDigitChar(s[i])

\* int(s) raises ValueError unless every character is a decimal digit
\* (for a string that passed isdigit(): no sign, space or underscore)
IntRaises(s) == \E i \in 1..Len(s) : ~IsDecimalChar(s[i])

RECURSIVE IntOf(_)
IntOf(s) ==
    IF Len(s) = 0 THEN 0
    ELSE 10 * IntOf(SubSeq(s, 1, Len(s) - 1)) + DecimalValue(s[Len(s)])

----------------------------------------------------------------------------
(* re.sub(r"^[A-Z]:\\Users\\", "~", space_key, count=1, flags=re.IGNORECASE) *)

\* lower case of a character as re.IGNORECASE compares literals: the ASCII
\* letters, plus LATIN SMALL LETTER LONG S ~ s, KELVIN SIGN ~ k,
\* I WITH DOT ABOVE / DOTLESS I ~ i
Fold(c) ==
    IF c \in Range(AsciiUpper) THEN AsciiLower[IndexOf(AsciiUpper, c)]
    ELSE IF c = "U+017F" THEN "s"
    ELSE IF c = "U+212A" THEN "k"
    ELSE IF c \in {"U+0130", "U+0131"} THEN "i"
    ELSE c

\* the pattern after the anchor: a character class and eight literals
DrivePattern ==
    <<[class |-> "A-Z"], [lit |-> ":"], [lit |-> "\\"], [lit |-> "U"],
      [lit |-> "s"], [lit |-> "e"], [lit |-> "r"], [lit |-> "s"],
      [lit |-> "\\"]>>

AtomMatches(atom, c) ==
    IF "class" \in DOMAIN atom
    THEN \E u \in Range(AsciiUpper) : Fold(c) = Fold(u)
    ELSE Fold(c) = Fold(atom.lit)

\* the pattern matches s at position p; ^ (no re.MULTILINE) holds at 1 only
MatchesAt(s, p) ==
    /\ p = 1
    /\ p + Len(DrivePattern) - 1 <= Len(s)
    /\ \A k \in 1..Len(DrivePattern) : AtomMatches(DrivePattern[k], s[p + k - 1])

\* the normalizer with the replacement string left empty
NormalizeDropsTilde(space_key) ==
    IF \E p \in 1..Len(space_key) : MatchesAt(space_key, p)
    THEN LET p == CHOOSE q \in 1..Len(space_key) :
                      /\ MatchesAt(space_key, q)
                      /\ \A r \in 1..(q - 1) : ~MatchesAt(space_key, r)
         IN SubSeq(space_key, 1, p - 1)
            \o SubSeq(space_key, p + Len(DrivePattern), Len(space_key))
    ELSE space_key

\* count=1: the leftmost match is replaced by "~", the rest is kept
_normalize_space_key(space_key) ==
    IF \E p \in 1..Len(space_key) : MatchesAt(space_key, p)
    THEN LET p == CHOOSE q \in 1..Len(space_key) :
                      /\ MatchesAt(space_key, q)
                      /\ \A r \in 1..(q - 1) : ~MatchesAt(space_key, r)
         IN SubSeq(space_key, 1, p - 1) \o <<"~">>
            \o SubSeq(space_key, p + Len(DrivePattern), Len(space_key))
    ELSE space_key

----------------------------------------------------------------------------
(* Inputs *)

Str_123 == <<"1","2","3">>
Str_456 == <<"4","5","6">>
Str_007 == <<"0","0","7">>
Str_url == <<"h","t","t","p","s",":","/","/","w","/","7","8","9">>
Str_12a == <<"1","2","a">>
Str_empty == <<>>
Str_arabic3 == <<"U+0663">>
Str_sup2 == <<"U+00B2">>
Str_1sup2 == <<"1","U+00B2">>

\* the tokens given to pages and pages_with_descendants
PageTokens ==
    {Str_123, Str_456, Str_007, Str_url, Str_12a, Str_empty,
     Str_arabic3, Str_sup2, Str_1sup2}

\* the pieces space keys are made of
Piece_C == <<"C",":","\\","U","s","e","r","s","\\">>
Piece_c == <<"c",":","\\","u","s","e","r","s","\\">>
Piece_z == <<"z",":","\\","U","S","E","R","S","\\">>
Piece_kelvin == <<"U+212A",":","\\","U","s","e","r","s","\\">>
Piece_eacute == <<"U+00E9",":","\\","U","s","e","r","s","\\">>
Piece_one == <<"1",":","\\","U","s","e","r","s","\\">>
Piece_longs == <<"C",":","\\","U","U+017F","e","r","s","\\">>
Piece_noslash == <<"C",":","\\","U","s","e","r","s">>
Piece_tilde == <<"~">>
Piece_jdoe == <<"j","d","o","e">>
Piece_PROJ == <<"P","R","O","J">>
Piece_X == <<"X">>

Pieces ==
    {Piece_C, Piece_c, Piece_z, Piece_kelvin, Piece_eacute, Piece_one,
     Piece_longs, Piece_noslash, Piece_tilde, Piece_jdoe, Piece_PROJ, Piece_X}

RECURSIVE Concat(_)
Concat(ps) == IF Len(ps) = 0 THEN <<>> ELSE Head(ps) \o Concat(Tail(ps))

\* every list over S of length lo..hi
Lists(S, lo, hi) == UNION {[1..n -> S] : n \in lo..hi}

\* the keys of the normalizer's specification: up to MaxPieces pieces
GeneratedKeys == {Concat(ps) : ps \in Lists(Pieces, 0, MaxPieces)}

\* the keys given to spaces
SpaceKeys ==
    {Piece_tilde \o Piece_jdoe, Piece_C \o Piece_jdoe, Piece_c \o Piece_jdoe,
     Piece_PROJ, Piece_C \o Piece_C}

\* typer requires at least one value for a list argument
PageArgLists == Lists(PageTokens, 1, MaxArgs)
SpaceArgLists == Lists(SpaceKeys, 1, MaxArgs)

OutputPathKey == "export.output_path"
Paths == {"/cfg/out", "/tmp/out"}
\* --output-path: a directory, or None when the option is absent
OutputPaths == Paths \cup {"None"}

----------------------------------------------------------------------------
(* The collaborators *)

\* SettingsStore.set_setting(dottedKey, value)
set_setting(store, key, value) == [store EXCEPT ![key] = value]

SetSettingCall(key, value) == [fn |-> "set_setting", key |-> key, value |-> value]
FromIdCall(n) == [fn |-> "Page.from_id", id |-> n]
FromUrlCall(s) == [fn |-> "Page.from_url", url |-> s]
FromKeyCall(k) == [fn |-> "Space.from_key", space_key |-> k]
FromApiCall == [fn |-> "Organization.from_api"]
\* a method call on the entity the constructor call `made` returned
ExportCall(method, made) == [fn |-> method, on |-> made]

Constructors ==
    {"Page.from_id", "Page.from_url", "Space.from_key", "Organization.from_api"}
Exports ==
    {"Page.export", "Page.export_with_descendants", "Space.export",
     "Organization.export"}

\* set_setting returned
Wrote(key, value) == [call |-> SetSettingCall(key, value), ok |-> TRUE]

\* a call to a collaborator that returns (ok) or raises; nothing catches
Call(c, ok, then) ==
    /\ calls' = Append(calls, [call |-> c, ok |-> ok])
    /\ pc' = IF ok THEN then ELSE "raised"
    /\ raised_by' = IF ok THEN raised_by ELSE c.fn

\* the command returned, or an exception left it
Ended == {"done", "raised"}

----------------------------------------------------------------------------
(* The commands *)

Init ==
    /\ settings \in [{OutputPathKey} -> Paths]
    /\ settings0 = settings
    /\ cmd = "none"
    /\ args = <<>>
    /\ output_path = "None"
    /\ pc = "idle"
    /\ idx = 0
    /\ normalized_space_keys = <<>>
    /\ calls = <<>>
    /\ raised_by = "none"

\* app() dispatches to a command (one command per process)
Invoke(name, list, path, first) ==
    /\ pc = "idle"
    /\ cmd' = name
    /\ args' = list
    /\ output_path' = path
    /\ pc' = first
    /\ idx' = 0
    /\ normalized_space_keys' = <<>>
    /\ calls' = <<>>
    /\ raised_by' = "none"
    /\ settings0' = settings
    /\ UNCHANGED settings

\* lines 29-40
pages ==
    /\ pc = "idle"
    /\ \E tokens \in PageArgLists, path \in OutputPaths :
           Invoke("pages", tokens, path, "override")

\* lines 48-59
pages_with_descendants ==
    /\ pc = "idle"
    /\ \E tokens \in PageArgLists, path \in OutputPaths :
           Invoke("pages_with_descendants", tokens, path, "override")

SpacesOn(lists) ==
    /\ pc = "idle"
    /\ \E space_keys \in lists, path \in OutputPaths :
           Invoke("spaces", space_keys, path, "normalize")

\* lines 67-76
spaces == SpacesOn(SpaceArgLists)

\* spaces given one key, the key generated from the pieces
spaces_one_key == SpacesOn({<<key>> : key \in GeneratedKeys})

\* lines 87-97
all_spaces ==
    /\ pc = "idle"
    /\ \E path \in OutputPaths : Invoke("all_spaces", <<>>, path, "override")

\* line 78: the whole list is normalized before the timed block is entered
spaces_normalize ==
    /\ pc = "normalize"
    /\ normalized_space_keys' =
           [i \in 1..Len(args) |-> _normalize_space_key(args[i])]
    /\ pc' = "override"
    /\ UNCHANGED <<settings, settings0, cmd, args, output_path, idx, calls,
                   raised_by>>

\* the override that writes whatever it is given, None included
OverrideWritesAlways ==
    /\ pc = "override"
    /\ settings' = set_setting(settings, OutputPathKey, output_path)
    /\ calls' = Append(calls, Wrote(OutputPathKey, output_path))
    /\ pc' = IF cmd = "all_spaces" THEN "from_api" ELSE "for"
    /\ UNCHANGED <<settings0, cmd, args, output_path, idx,
                   normalized_space_keys, raised_by>>

\* the override that writes the setting and writes it again
OverrideWritesTwice ==
    /\ pc = "override"
    /\ IF output_path # "None"
       THEN /\ settings' = set_setting(settings, OutputPathKey, output_path)
            /\ calls' = calls \o <<Wrote(OutputPathKey, output_path),
                                   Wrote(OutputPathKey, output_path)>>
       ELSE UNCHANGED <<settings, calls>>
    /\ pc' = IF cmd = "all_spaces" THEN "from_api" ELSE "for"
    /\ UNCHANGED <<settings0, cmd, args, output_path, idx,
                   normalized_space_keys, raised_by>>

\* the override that sets the path for the run and leaves the store alone
OverrideKeepsStore ==
    /\ pc = "override"
    /\ IF output_path # "None"
       THEN calls' = Append(calls, Wrote(OutputPathKey, output_path))
       ELSE UNCHANGED calls
    /\ pc' = IF cmd = "all_spaces" THEN "from_api" ELSE "for"
    /\ UNCHANGED <<settings, settings0, cmd, args, output_path, idx,
                   normalized_space_keys, raised_by>>

\* lines 41, 60, 81, 98: the first statement of every timed block
override_output_path_config ==
    /\ pc = "override"
    /\ IF output_path # "None"
       THEN /\ settings' = set_setting(settings, OutputPathKey, output_path)
            /\ calls' = Append(calls, Wrote(OutputPathKey, output_path))
       ELSE UNCHANGED <<settings, calls>>
    /\ pc' = IF cmd = "all_spaces" THEN "from_api" ELSE "for"
    /\ UNCHANGED <<settings0, cmd, args, output_path, idx,
                   normalized_space_keys, raised_by>>

\* Page.from_id(int(page)) if page.isdigit() else Page.from_url(page)
ConstructPage(page, ok) ==
    IF isdigit(page)
    THEN IF IntRaises(page)
         THEN /\ pc' = "raised"
              /\ raised_by' = "int"
              /\ UNCHANGED calls
         ELSE Call(FromIdCall(IntOf(page)), ok, "export")
    ELSE Call(FromUrlCall(page), ok, "export")

\* the for loop takes its next token and constructs the page
PageLoop(name) ==
    /\ pc = "for"
    /\ cmd = name
    /\ idx < Len(args)
    /\ idx' = idx + 1
    /\ \E ok \in BOOLEAN : ConstructPage(args[idx + 1], ok)
    /\ UNCHANGED <<settings, settings0, cmd, args, output_path,
                   normalized_space_keys>>

\* the entity's export method; after the last item the command returns
ExportStep(name, method, ok) ==
    /\ pc = "export"
    /\ cmd = name
    /\ Call(ExportCall(method, calls[Len(calls)].call), ok,
            IF idx < Len(args) THEN "for" ELSE "done")
    /\ UNCHANGED <<settings, settings0, cmd, args, output_path, idx,
                   normalized_space_keys>>

\* lines 42-43
pages_construct == PageLoop("pages")

\* an export whose failure is answered by calling it once more
PagesExportRetries ==
    \E ok \in BOOLEAN :
        /\ pc = "export"
        /\ cmd = "pages"
        /\ LET c == ExportCall("Page.export", calls[Len(calls)].call)
           IN /\ calls' = IF ok THEN Append(calls, [call |-> c, ok |-> TRUE])
                          ELSE calls \o <<[call |-> c, ok |-> FALSE],
                                          [call |-> c, ok |-> FALSE]>>
              /\ pc' = IF ~ok THEN "raised"
                       ELSE IF idx < Len(args) THEN "for" ELSE "done"
              /\ raised_by' = IF ok THEN raised_by ELSE c.fn
        /\ UNCHANGED <<settings, settings0, cmd, args, output_path, idx,
                       normalized_space_keys>>

\* line 44
pages_export == \E ok \in BOOLEAN : ExportStep("pages", "Page.export", ok)

\* lines 61-62
pages_with_descendants_construct == PageLoop("pages_with_descendants")

\* line 63
pages_with_descendants_export ==
    \E ok \in BOOLEAN :
        ExportStep("pages_with_descendants", "Page.export_with_descendants", ok)

\* the loop over the keys as they were given
SpacesFromRawKey ==
    /\ pc = "for"
    /\ cmd = "spaces"
    /\ idx < Len(args)
    /\ idx' = idx + 1
    /\ \E ok \in BOOLEAN : Call(FromKeyCall(args[idx + 1]), ok, "export")
    /\ UNCHANGED <<settings, settings0, cmd, args, output_path,
                   normalized_space_keys>>

\* lines 82-83
spaces_from_key ==
    /\ pc = "for"
    /\ cmd = "spaces"
    /\ idx < Len(normalized_space_keys)
    /\ idx' = idx + 1
    /\ \E ok \in BOOLEAN :
           Call(FromKeyCall(normalized_space_keys[idx + 1]), ok, "export")
    /\ UNCHANGED <<settings, settings0, cmd, args, output_path,
                   normalized_space_keys>>

\* line 84
spaces_export == \E ok \in BOOLEAN : ExportStep("spaces", "Space.export", ok)

\* line 99
all_spaces_from_api ==
    /\ pc = "from_api"
    /\ \E ok \in BOOLEAN : Call(FromApiCall, ok, "export")
    /\ UNCHANGED <<settings, settings0, cmd, args, output_path, idx,
                   normalized_space_keys>>

\* line 100
all_spaces_export ==
    \E ok \in BOOLEAN : ExportStep("all_spaces", "Organization.export", ok)

\* the process exits; the settings store is what outlives it
app_exit ==
    /\ pc \in Ended
    /\ pc' = "idle"
    /\ cmd' = "none"
    /\ args' = <<>>
    /\ output_path' = "None"
    /\ idx' = 0
    /\ normalized_space_keys' = <<>>
    /\ calls' = <<>>
    /\ raised_by' = "none"
    /\ settings0' = settings
    /\ UNCHANGED settings

Next ==
    \/ pages
    \/ pages_with_descendants
    \/ spaces
    \/ all_spaces
    \/ spaces_normalize
    \/ override_output_path_config
    \/ pages_construct
    \/ pages_export
    \/ pages_with_descendants_construct
    \/ pages_with_descendants_export
    \/ spaces_from_key
    \/ spaces_export
    \/ all_spaces_from_api
    \/ all_spaces_export
    \/ app_exit

Spec == Init /\ [][Next]_vars

\* the spaces command on one generated key: the normalizer on its inputs
NextNorm ==
    \/ spaces_one_key
    \/ spaces_normalize
    \/ override_output_path_config
    \/ spaces_from_key
    \/ spaces_export
    \/ app_exit

SpecNorm == Init /\ [][NextNorm]_vars

----------------------------------------------------------------------------
(* Properties *)

ExportCommands == {"pages", "pages_with_descendants", "spaces", "all_spaces"}
PageCommands == {"pages", "pages_with_descendants"}

IsWrite(e) == e.call.fn = "set_setting"
\* the writes to the settings store, and the calls to the entities
Writes == SelectSeq(calls, IsWrite)
IsEntityCall(e) == e.call.fn # "set_setting"
EntityCalls == SelectSeq(calls, IsEntityCall)

\* C1: in a command given an output path, 'export.output_path' is written
\* exactly once, before the first constructor call and the first export, and
\* the command makes no other write to the store.
Thm_C1_WrittenOnceBeforeEntities ==
    (cmd \in ExportCommands /\ output_path # "None") =>
        IF pc \in {"normalize", "override"}
        THEN calls = <<>> /\ settings = settings0
        ELSE /\ Len(calls) >= 1
             /\ calls[1] = Wrote(OutputPathKey, output_path)
             /\ Len(Writes) = 1
             /\ settings = set_setting(settings0, OutputPathKey, output_path)

Wit_C1_TwoPagesWithOutputPath ==
    /\ cmd = "pages"
    /\ args = <<Str_123, Str_456>>
    /\ output_path = "/tmp/out"
    /\ pc = "done"
    /\ Len(calls) = 5

\* C10: in a command given no output path, no write is made to the settings
\* store in any state of the run, whether the batch completes or aborts.
Thm_C10_NoWriteWithoutOutputPath ==
    (cmd \in ExportCommands /\ output_path = "None") =>
        /\ settings = settings0
        /\ Len(Writes) = 0

Wit_C10_AbortedWithoutOutputPath ==
    /\ cmd = "spaces"
    /\ output_path = "None"
    /\ pc = "raised"
    /\ Len(calls) = 4

CallsOf(log) == [i \in 1..Len(log) |-> log[i].call]

\* the constructor call lines 43 and 62 make for a token int() accepts
PageConstructor(page) ==
    IF isdigit(page) THEN FromIdCall(IntOf(page)) ELSE FromUrlCall(page)

ExportMethod(name) ==
    CASE name = "pages" -> "Page.export"
      [] name = "pages_with_descendants" -> "Page.export_with_descendants"
      [] name = "spaces" -> "Space.export"
      [] name = "all_spaces" -> "Organization.export"

\* construct(t1), export(t1), ..., construct(tn), export(tn)
RECURSIVE InOrder(_, _)
InOrder(constructors, method) ==
    IF Len(constructors) = 0 THEN <<>>
    ELSE <<Head(constructors), ExportCall(method, Head(constructors))>>
         \o InOrder(Tail(constructors), method)

\* C2: in pages and pages_with_descendants, when no collaborator fails, the
\* calls are construct(t1), export(t1), ..., construct(tn), export(tn) in
\* input order, with the command's own export method.
Claim_C2_EveryTokenConstructedAndExported ==
    (cmd \in PageCommands /\ pc \in Ended
        /\ raised_by \notin Constructors \cup Exports) =>
        /\ pc = "done"
        /\ CallsOf(EntityCalls) =
               InOrder([i \in 1..Len(args) |-> PageConstructor(args[i])],
                       ExportMethod(cmd))

\* the value of a string of ASCII decimal digits
RECURSIVE AsciiInt(_)
AsciiInt(s) ==
    IF Len(s) = 0 THEN 0
    ELSE 10 * AsciiInt(SubSeq(s, 1, Len(s) - 1))
         + (IndexOf(AsciiDigits, s[Len(s)]) - 1)

OnlyAsciiDigits(s) == \A i \in 1..Len(s) : IsAsciiDigit(s[i])

\* C3: a token of ASCII decimal digits only is resolved by Page.from_id with
\* its integer value; a non-empty token with a character that is not an
\* ASCII digit is resolved by Page.from_url with the token unchanged.
Claim_C3_AsciiDigitsToIdElseUrl ==
    (cmd \in PageCommands /\ pc = "export") =>
        LET page == args[idx]
            made == calls[Len(calls)].call
        IN  /\ (Len(page) > 0 /\ OnlyAsciiDigits(page)) =>
                   (made.fn = "Page.from_id" /\ made.id = AsciiInt(page))
            /\ (Len(page) > 0 /\ ~OnlyAsciiDigits(page)) =>
                   (made.fn = "Page.from_url" /\ made.url = page)

\* C9: resolution never fails for a non-empty token: every token taken by
\* the loop reaches Page.from_id or Page.from_url, and an error of the batch
\* comes from a constructor or an export call, never from the resolver.
Claim_C9_ResolverTotal ==
    (cmd \in PageCommands /\ pc = "raised") =>
        /\ raised_by \in Constructors \cup Exports
        /\ Len(EntityCalls) >= 1
        /\ EntityCalls[Len(EntityCalls)].call.fn = raised_by

\* C4: spaces normalizes every key before the first Space.from_key call, and
\* calls Space.from_key once per key, in input order, with the normalized
\* key, each call followed by the export of that space before the next key.
Thm_C4_SpacesNormalizedInOrder ==
    cmd = "spaces" =>
        LET expected ==
                InOrder([i \in 1..Len(args) |->
                             FromKeyCall(_normalize_space_key(args[i]))],
                        "Space.export")
            made == CallsOf(EntityCalls)
        IN  /\ pc = "normalize" => calls = <<>>
            /\ Len(made) >= 1 => Len(normalized_space_keys) = Len(args)
            /\ Len(made) <= Len(expected)
            /\ made = SubSeq(expected, 1, Len(made))
            /\ pc = "done" => made = expected

Wit_C4_DriveKeyThenPlainKey ==
    /\ cmd = "spaces"
    /\ args = <<Piece_C \o Piece_jdoe, Piece_PROJ>>
    /\ pc = "done"
    /\ calls[1].call = FromKeyCall(Piece_tilde \o Piece_jdoe)
    /\ calls[3].call = FromKeyCall(Piece_PROJ)

\* the constructor call of each item of the list, as the command makes it
ConstructorOf(name, item) ==
    IF name = "spaces" THEN FromKeyCall(_normalize_space_key(item))
    ELSE PageConstructor(item)

\* C5: in pages, pages_with_descendants and spaces a failing constructor or
\* export ends the command in error; the failing call is the last call and
\* is made once; the items before it were each constructed and exported
\* once, and no item after it is touched.
Thm_C5_FailFast ==
    cmd \in {"pages", "pages_with_descendants", "spaces"} =>
        /\ \A i \in 1..Len(calls) :
               ~calls[i].ok => (i = Len(calls) /\ pc = "raised")
        /\ (pc = "raised" /\ raised_by \in Constructors \cup Exports) =>
               LET before ==
                       InOrder([i \in 1..(idx - 1) |->
                                    ConstructorOf(cmd, args[i])],
                               ExportMethod(cmd))
                   failing == ConstructorOf(cmd, args[idx])
               IN  /\ idx >= 1
                   /\ ~calls[Len(calls)].ok
                   /\ CallsOf(EntityCalls) =
                          before \o
                          (IF raised_by \in Constructors
                           THEN <<failing>>
                           ELSE <<failing,
                                  ExportCall(ExportMethod(cmd), failing)>>)

Wit_C5_SecondExportFails ==
    /\ cmd = "pages"
    /\ args = <<Str_123, Str_url>>
    /\ pc = "raised"
    /\ raised_by = "Page.export"
    /\ idx = 2
    /\ Len(EntityCalls) = 4

\* C7: normalizing a normalized key changes nothing, also when the drive
\* prefix occurs more than once in the key.
Thm_C7_NormalizeIdempotent ==
    (cmd = "spaces" /\ pc # "normalize") =>
        \A i \in 1..Len(normalized_space_keys) :
            _normalize_space_key(normalized_space_keys[i])
                = normalized_space_keys[i]

Wit_C7_PrefixTwice ==
    /\ cmd = "spaces"
    /\ args = <<Piece_C \o Piece_c>>
    /\ normalized_space_keys = <<Piece_tilde \o Piece_c>>

\* lower case of an ASCII letter; any other character is itself
AsciiLowerOf(c) ==
    IF c \in Range(AsciiUpper) THEN AsciiLower[IndexOf(AsciiUpper, c)] ELSE c

\* one letter, a colon, a backslash, 'Users' in any letter case, a backslash
ReferencePrefix == <<":", "\\", "u", "s", "e", "r", "s", "\\">>
StartsWithDrivePrefix(s) ==
    /\ Len(s) >= 1 + Len(ReferencePrefix)
    /\ IsAsciiLetter(s[1])
    /\ \A k \in 1..Len(ReferencePrefix) :
           AsciiLowerOf(s[1 + k]) = ReferencePrefix[k]

ReferenceNormalize(s) ==
    IF StartsWithDrivePrefix(s)
    THEN <<"~">> \o SubSeq(s, 2 + Len(ReferencePrefix), Len(s))
    ELSE s

\* C8: the normalizer returns '~' and the rest of the key when the key starts
\* with a letter, ':\', 'Users' in any letter case and '\', and returns the
\* key unchanged in every other case.
Claim_C8_NormalizeMatchesReference ==
    (cmd = "spaces" /\ pc # "normalize") =>
        \A i \in 1..Len(normalized_space_keys) :
            normalized_space_keys[i] = ReferenceNormalize(args[i])

====
